---- MODULE Spec2Model ----
(***************************************************************************)
(* The bounded-context conversation history manager of                     *)
(* src/socratic_tutor_v6.py: manage_history_and_get_context with its       *)
(* helpers count_tokens, summarize_history and format_history_for_prompt,  *)
(* driven by the session loop of run_tutor.                                *)
(*                                                                         *)
(* A text is a sequence of symbols.  "sp" is one blank, "nl" a newline,    *)
(* "w" a word; every fixed string of the program (a section label, a       *)
(* placeholder) is one symbol of its own.  The token oracle counts one     *)
(* token per symbol.                                                       *)
(***************************************************************************)
EXTENDS Integers, Sequences, FiniteSets, TLC

\* ------------------------------------------------------------------------
\* Configuration (scaled down; the ratio is the program's)
\* ------------------------------------------------------------------------
MAX_CONTEXT_WINDOW == 10

HISTORY_TOKEN_BUDGET_PERCENT == 80

LAST_VERBATIM_TURNS == 1

PROMPT_OVERHEAD_ESTIMATE == 1

MaxTurns == 3

\* the log bound of the specification that follows one session further, with
\* a summarizer that always gives the same answer
MaxTurnsLong == 6

\* how many turns the lists handed to format_history_for_prompt alone may hold
MaxFormatTurns == 2

\* the settings of the specification with a window of several turns
WideWindow == 2

WideContextWindow == 20

NumQuestions == 2

\* the module-level settings the program runs with: max_context_window,
\* last_verbatim_turns, prompt_overhead_estimate
VARIABLE config

\* what a specification explores: how many turns a log may reach, and which
\* responses the summarizer may give
VARIABLE scope

\* target_tokens=None of summarize_history
NoTarget == -1

history_token_budget ==
  (config.max_context_window * HISTORY_TOKEN_BUDGET_PERCENT) \div 100

\* ------------------------------------------------------------------------
\* Texts
\* ------------------------------------------------------------------------
EmptyText == << >>

Max(a, b) == IF a >= b THEN a ELSE b

IsSpace(c) == c \in {"sp", "nl"}

RECURSIVE LStrip(_)
LStrip(t) ==
  IF t = << >> THEN << >>
  ELSE IF IsSpace(Head(t)) THEN LStrip(Tail(t)) ELSE t

RECURSIVE RStrip(_)
RStrip(t) ==
  IF t = << >> THEN << >>
  ELSE IF IsSpace(t[Len(t)]) THEN RStrip(SubSeq(t, 1, Len(t) - 1)) ELSE t

\* str.strip()
Strip(t) == RStrip(LStrip(t))

\* "\n  ".join(text.split('\n')): two blanks after every newline
RECURSIVE Indent(_)
Indent(t) ==
  IF t = << >> THEN << >>
  ELSE IF Head(t) = "nl" THEN <<"nl", "sp", "sp">> \o Indent(Tail(t))
  ELSE <<Head(t)>> \o Indent(Tail(t))

\* "\n".join(parts)
RECURSIVE JoinNl(_)
JoinNl(parts) ==
  IF parts = << >> THEN << >>
  ELSE IF Len(parts) = 1 THEN parts[1]
  ELSE parts[1] \o <<"nl">> \o JoinNl(Tail(parts))

\* str.capitalize() on a role
Capitalize(role) ==
  CASE role = "user" -> "User"
    [] role = "assistant" -> "Assistant"
    [] OTHER -> role

\* ------------------------------------------------------------------------
\* Fixed strings of the program
\* ------------------------------------------------------------------------
HdrSummary == <<"Summary of Older Conversation Turns:">>

HdrRecent == <<"Recent Verbatim Conversation Turns:">>

HdrRecentOnly == <<"Conversation History (Recent Turns Only):">>

NoHistoryMarker == <<"No conversation history for this concept yet.">>

NoVerbatimLine == <<"sp", "sp", "(No recent verbatim turns available)">>

DiscardedMarker == <<"[History discarded due to excessive verbatim length]">>

SummarizationFailed == <<"[Summarization failed]">>

SummarizationFailedApi == <<"[Summarization failed due to API error]">>

SummarizationFailedUnexpected == <<"[Summarization failed due to unexpected error]">>

HintRequest == <<"(Requested a hint)">>

\* ------------------------------------------------------------------------
\* The oracles' answers, and what the user and the model may say
\* ------------------------------------------------------------------------
\* response.text of the summarizer before .strip(): blank, one short text (the
\* very words of the discard marker) and a padded text of two lines
SummarizerTexts == { <<"sp">>, DiscardedMarker, <<"sp", "w", "nl", "w">> }

SummarizerResponses ==
  [kind : {"ok"}, text : SummarizerTexts]
    \cup [kind : {"notext", "api", "unexpected"}, text : {EmptyText}]

NoResponse == [kind |-> "none", text |-> EmptyText]

\* input() of an answer before .strip()
RawAnswers ==
  { <<"sp", "w", "nl", "w", "w", "w", "sp">>, <<"w", "nl", "w", "w", "w", "w">> }

\* input() of a confusion phrase before .strip()
RawConfusions == { <<"stuck", "sp">> }

\* what get_ai_hint / get_ai_scaffolded_explanation / get_ai_feedback return
ReplyTexts ==
  { <<"w", "nl", "w">>, <<"w", "nl", "w", "w", "w">>, <<"w", "nl", "w", "w", "w", "w">> }

Turn(role, content) == [role |-> role, content |-> content]

\* ------------------------------------------------------------------------
\* count_tokens: 0 for the empty text without asking the model, 0 when the
\* model call fails, the model's count otherwise
\* ------------------------------------------------------------------------
\* a variant that takes the model's count even when the model call failed
count_tokens_unguarded(text, fails) == Len(text)

\* a variant that asks the model about the empty text too, and is told 1
count_tokens_empty_asked(text, fails) ==
  IF fails THEN 0
  ELSE IF text = EmptyText THEN 1
  ELSE Len(text)

\* a variant that fails closed: a failed count is taken to be over the budget
count_tokens_failing_closed(text, fails) ==
  IF text = EmptyText THEN 0
  ELSE IF fails THEN history_token_budget + 1
  ELSE Len(text)

count_tokens(text, fails) ==
  IF text = EmptyText THEN 0
  ELSE IF fails THEN 0
  ELSE Len(text)

\* ------------------------------------------------------------------------
\* format_history_for_prompt
\* ------------------------------------------------------------------------
\* f"- {role}:\n  {indented_content}" of one turn
FormatTurn(turn) ==
  <<"-", Capitalize(turn.role), "nl", "sp", "sp">> \o Indent(Strip(turn.content))

SummaryParts(summary) ==
  IF summary # EmptyText
    THEN << HdrSummary, <<"sp", "sp">> \o Indent(summary), <<"nl">> \o HdrRecent >>
    ELSE << HdrRecentOnly >>

\* a variant that lists the turns newest first
format_history_newest_first(summary, verbatim_turns) ==
  IF verbatim_turns = << >>
    THEN IF summary = EmptyText
           THEN NoHistoryMarker
           ELSE JoinNl(Append(SummaryParts(summary), NoVerbatimLine))
    ELSE JoinNl(SummaryParts(summary)
                  \o [i \in 1..Len(verbatim_turns) |->
                        FormatTurn(verbatim_turns[Len(verbatim_turns) + 1 - i])])

format_history_for_prompt(summary, verbatim_turns) ==
  IF verbatim_turns = << >>
    THEN IF summary = EmptyText
           THEN NoHistoryMarker
           ELSE JoinNl(Append(SummaryParts(summary), NoVerbatimLine))
    ELSE JoinNl(SummaryParts(summary)
                  \o [i \in 1..Len(verbatim_turns) |-> FormatTurn(verbatim_turns[i])])

\* ------------------------------------------------------------------------
\* summarize_history
\* ------------------------------------------------------------------------
\* the conversation text placed in the summarization prompt
TurnsText(turns) ==
  JoinNl([i \in 1..Len(turns) |->
            <<Capitalize(turns[i].role), ":", "sp">> \o Strip(turns[i].content)])

\* the length guidance placed in the prompt: none, or a word and a token target
LengthGuidance(target_tokens) ==
  IF target_tokens # NoTarget /\ target_tokens # 0 /\ target_tokens > 0
    THEN [given |-> TRUE, words |-> (target_tokens * 7) \div 10, tokens |-> target_tokens]
    ELSE [given |-> FALSE, words |-> 0, tokens |-> 0]

\* a variant that returns no text when the summarizer fails
summarize_history_silent(turns_to_summarize, target_tokens, resp) ==
  IF turns_to_summarize # << >> /\ resp.kind = "ok" THEN Strip(resp.text) ELSE EmptyText

\* resp is the outcome of model.generate_content; the count of the new summary
\* at line 193 is only printed
summarize_history(turns_to_summarize, target_tokens, resp) ==
  IF turns_to_summarize = << >> THEN EmptyText
  ELSE CASE resp.kind = "ok" -> Strip(resp.text)
         [] resp.kind = "notext" -> SummarizationFailed
         [] resp.kind = "api" -> SummarizationFailedApi
         [] OTHER -> SummarizationFailedUnexpected

\* the request a call of summarize_history sends (none when it has no turns)
SummarizerCall(turns_to_summarize, target_tokens, resp) ==
  [prompt_turns |-> TurnsText(turns_to_summarize),
   turns |-> turns_to_summarize,
   guidance |-> LengthGuidance(target_tokens),
   result |-> summarize_history(turns_to_summarize, target_tokens, resp)]

\* ------------------------------------------------------------------------
\* manage_history_and_get_context
\* ------------------------------------------------------------------------
\* variants of the split that miscount by one
verbatim_cutoff_early(chat_history) ==
  Max(0, Len(chat_history) - config.last_verbatim_turns - 1)

verbatim_cutoff_late(chat_history) ==
  IF chat_history = << >> THEN 0
  ELSE Max(0, Len(chat_history) - config.last_verbatim_turns + 1)

\* a variant that takes the window as the slice [-n:], which is the whole
\* list for n = 0
verbatim_cutoff_from_end(chat_history) ==
  IF config.last_verbatim_turns = 0 THEN 0
  ELSE Max(0, Len(chat_history) - config.last_verbatim_turns)

\* 1. the split point between older and verbatim turns
verbatim_cutoff(chat_history) ==
  Max(0, Len(chat_history) - config.last_verbatim_turns)

VerbatimOf(chat_history) ==
  SubSeq(chat_history, verbatim_cutoff(chat_history) + 1, Len(chat_history))

\* a variant that loses the oldest turn
OlderOfWithoutFirst(chat_history) == SubSeq(chat_history, 2, verbatim_cutoff(chat_history))

OlderOf(chat_history) == SubSeq(chat_history, 1, verbatim_cutoff(chat_history))

\* a variant that merges the new summary into the retained one
FirstSummaryMerged(current_summary, older_turns, resp) ==
  IF older_turns # << >>
    THEN current_summary \o summarize_history(older_turns, NoTarget, resp)
    ELSE EmptyText

\* 2. the summary of step 2: recomputed from the older turns, or empty
FirstSummary(current_summary, older_turns, resp) ==
  IF older_turns # << >>
    THEN summarize_history(older_turns, NoTarget, resp)
    ELSE EmptyText

\* 3. the text whose tokens stand for the verbatim window
VerbatimTurnsText(verbatim_turns) ==
  JoinNl([i \in 1..Len(verbatim_turns) |->
            <<verbatim_turns[i].role, ":", "sp">> \o verbatim_turns[i].content])

\* a variant that discards the history one token late
OverflowBranchLateDiscard(total_tokens, allowed_summary_tokens, summary_tokens, older_turns) ==
  IF total_tokens <= history_token_budget THEN "fits"
  ELSE IF allowed_summary_tokens < -1 THEN "hard"
  ELSE IF allowed_summary_tokens < summary_tokens /\ older_turns # << >> THEN "resum"
  ELSE IF older_turns = << >> THEN "reset"
  ELSE "none"

\* a variant that discards the history on every overflow
OverflowBranchDiscardAll(total_tokens, allowed_summary_tokens, summary_tokens, older_turns) ==
  IF total_tokens <= history_token_budget THEN "fits" ELSE "hard"

\* a variant that summarizes again whenever there are older turns
OverflowBranchAlwaysAgain(total_tokens, allowed_summary_tokens, summary_tokens, older_turns) ==
  IF older_turns # << >> THEN "resum"
  ELSE IF total_tokens <= history_token_budget THEN "fits"
  ELSE IF allowed_summary_tokens < 0 THEN "hard"
  ELSE "reset"

\* a variant that discards the history as soon as the window fills the budget
OverflowBranchDiscardAtBudget(total_tokens, allowed_summary_tokens, summary_tokens, older_turns) ==
  IF total_tokens <= history_token_budget THEN "fits"
  ELSE IF allowed_summary_tokens <= 0 THEN "hard"
  ELSE IF allowed_summary_tokens < summary_tokens /\ older_turns # << >> THEN "resum"
  ELSE IF older_turns = << >> THEN "reset"
  ELSE "none"

\* a variant that never summarizes again
OverflowBranchNeverAgain(total_tokens, allowed_summary_tokens, summary_tokens, older_turns) ==
  IF total_tokens <= history_token_budget THEN "fits"
  ELSE IF allowed_summary_tokens < 0 THEN "hard"
  ELSE IF older_turns = << >> THEN "reset"
  ELSE "none"

\* 4. which branch of the overflow handling runs
OverflowBranch(total_tokens, allowed_summary_tokens, summary_tokens, older_turns) ==
  IF total_tokens <= history_token_budget THEN "fits"
  ELSE IF allowed_summary_tokens < 0 THEN "hard"
  ELSE IF allowed_summary_tokens < summary_tokens /\ older_turns # << >> THEN "resum"
  ELSE IF older_turns = << >> THEN "reset"
  ELSE "none"

\* a variant that returns no summary on hard overflow
HardOverflowSummaryEmpty == EmptyText

\* line 246: the summary returned on hard overflow
HardOverflowSummary == DiscardedMarker

\* a variant that drops turns from the old end of the window and keeps the
\* newest one
HardOverflowVerbatimNewest(verbatim_turns) ==
  SubSeq(verbatim_turns, Len(verbatim_turns), Len(verbatim_turns))

\* line 247: the verbatim turns emitted on hard overflow
HardOverflowVerbatim(verbatim_turns) == << >>

\* a variant in which the verbatim turns are the tail of the caller's list
\* itself, so that clearing them on hard overflow empties that tail
CallerLogAfterAliased(chat_history, branch) ==
  IF branch = "hard" THEN OlderOf(chat_history) ELSE chat_history

\* the caller's list after the call: lines 215-216 slice it into new lists,
\* line 247 binds the local name verbatim_turns to a new empty list, nothing
\* is appended to or removed from the list that was passed (line 267)
CallerLogAfter(chat_history, branch) == chat_history

\* a variant that formats the block before the overflow handling, from the
\* summary of step 2
RenderedSummaryOfStepTwo(summary1, final_summary) == summary1

\* line 264: the block is formatted from current_summary as step 4 left it,
\* the same object that line 268 returns
RenderedSummary(summary1, final_summary) == final_summary

\* steps 1-4 up to the choice of the branch
\* o: the oracles' answers during one call: the summarizer's two responses and
\* whether each of the three token counts fails
BranchTaken(current_summary, chat_history, o) ==
  LET older_turns == OlderOf(chat_history)
      summary_tokens ==
        count_tokens(FirstSummary(current_summary, older_turns, o.resp1), o.fail1)
      verbatim_tokens ==
        count_tokens(VerbatimTurnsText(VerbatimOf(chat_history)), o.fail2)
  IN OverflowBranch(summary_tokens + verbatim_tokens,
                    history_token_budget - verbatim_tokens, summary_tokens, older_turns)

manage_history_and_get_context(current_summary, chat_history, o) ==
  LET verbatim_turns == VerbatimOf(chat_history)
      older_turns == OlderOf(chat_history)
      summary1 == FirstSummary(current_summary, older_turns, o.resp1)
      summary_tokens1 == count_tokens(summary1, o.fail1)
      verbatim_tokens == count_tokens(VerbatimTurnsText(verbatim_turns), o.fail2)
      allowed_summary_tokens == history_token_budget - verbatim_tokens
      branch == BranchTaken(current_summary, chat_history, o)
      summary2 == summarize_history(older_turns, allowed_summary_tokens, o.resp2)
      final_summary ==
        CASE branch = "hard" -> HardOverflowSummary
          [] branch = "resum" -> summary2
          [] branch = "reset" -> EmptyText
          [] OTHER -> summary1
      final_verbatim ==
        IF branch = "hard" THEN HardOverflowVerbatim(verbatim_turns) ELSE verbatim_turns
      summary_tokens ==
        IF branch = "resum" THEN count_tokens(summary2, o.fail3) ELSE summary_tokens1
      calls ==
        (IF older_turns # << >>
           THEN << SummarizerCall(older_turns, NoTarget, o.resp1) >> ELSE << >>)
        \o (IF branch = "resum"
              THEN << SummarizerCall(older_turns, allowed_summary_tokens, o.resp2) >>
              ELSE << >>)
  IN [context |-> format_history_for_prompt(RenderedSummary(summary1, final_summary),
                                            final_verbatim),
      summary |-> final_summary,
      chat_history |-> CallerLogAfter(chat_history, branch),
      \* what the call did, kept for the properties
      branch |-> branch,
      older_turns |-> older_turns,
      window_turns |-> verbatim_turns,
      verbatim_turns |-> final_verbatim,
      calls |-> calls,
      summary_call |-> CASE branch = "resum" -> 2
                         [] branch \in {"hard", "reset"} -> 0
                         [] OTHER -> IF older_turns # << >> THEN 1 ELSE 0,
      summary_tokens |-> summary_tokens,
      verbatim_tokens |-> verbatim_tokens,
      total_tokens |-> summary_tokens + verbatim_tokens,
      allowed_summary_tokens |-> allowed_summary_tokens]

\* ------------------------------------------------------------------------
\* run_tutor: the session loop
\* ------------------------------------------------------------------------
VARIABLES
  pc,                      \* where run_tutor stands
  chat_history,            \* the turn log of the current concept
  current_summary,         \* the summary the caller retains
  history_context_string,  \* the Context Block of the latest call
  question,                \* 1-based index of the question being asked
  token_oracle,            \* "reliable", or "transient" when counts may fail
  turn_calls,              \* calls of manage_history_and_get_context made so far
                           \* in the running pass of the input loop
  request,                 \* right after a model request (hint, explanation,
                           \* feedback): what was sent, and the log at that moment
  left_behind,             \* until the first input of a concept: whether turns or
                           \* a summary of the concept before it were still held
                           \* when it was selected
  aborted,                 \* after a call that did not return: what the caller
                           \* held before it and what the call had computed
  last,                    \* the session's latest call of manage_history_and_get_context
  prev                     \* right after a call: the call before it, when made with
                           \* the same turn log: what it returned, and how its
                           \* previous summary and the oracles' answers compare
                           \* with those of last

vars == <<pc, chat_history, current_summary, history_context_string, question,
          token_oracle, config, scope, turn_calls, request, left_behind, aborted,
          last, prev>>

\* a model request: get_ai_hint, get_ai_scaffolded_explanation or
\* get_ai_feedback called with history_context_string
Request(kind) ==
  [valid |-> TRUE, kind |-> kind, context |-> history_context_string,
   chat_history |-> chat_history, calls |-> turn_calls, after_switch |-> left_behind]

NoRequest ==
  [valid |-> FALSE, kind |-> "none", context |-> EmptyText, chat_history |-> << >>,
   calls |-> 0, after_switch |-> FALSE]

NoAnswers ==
  [resp1 |-> NoResponse, resp2 |-> NoResponse,
   fail1 |-> FALSE, fail2 |-> FALSE, fail3 |-> FALSE]

\* a call: its arguments, the oracles' answers and everything it did
CallRecord(summary_arg, history_arg, o) ==
  [valid |-> TRUE, previous_summary |-> summary_arg, chat_history |-> history_arg,
   answers |-> o, result |-> manage_history_and_get_context(summary_arg, history_arg, o)]

NoCall ==
  [valid |-> FALSE, previous_summary |-> EmptyText, chat_history |-> << >>,
   answers |-> NoAnswers,
   result |-> manage_history_and_get_context(EmptyText, << >>, NoAnswers)]

Earlier(call, next) ==
  [valid |-> TRUE,
   context |-> call.result.context, summary |-> call.result.summary,
   other_previous_summary |-> call.previous_summary # next.previous_summary,
   same_answers |-> call.answers = next.answers,
   same_verbatim_tokens |-> call.result.verbatim_tokens = next.result.verbatim_tokens]

NoEarlier ==
  [valid |-> FALSE, context |-> EmptyText, summary |-> EmptyText,
   other_previous_summary |-> FALSE, same_answers |-> FALSE,
   same_verbatim_tokens |-> FALSE]

\* whether a count that reaches the model may fail
FailureChoices(text) ==
  IF token_oracle = "transient" /\ text # EmptyText THEN BOOLEAN ELSE {FALSE}

\* the answers the oracles can give during one call on this turn log: a
\* response for each summarizer request the call makes, a failure only for a
\* count that reaches the model
OracleAnswers(summary_arg, history_arg) ==
  LET older_turns == OlderOf(history_arg)
      first == IF older_turns # << >> THEN scope.responses ELSE {NoResponse}
      step3 ==
        { o \in [resp1 : first, resp2 : {NoResponse},
                 fail1 : BOOLEAN, fail2 : BOOLEAN, fail3 : {FALSE}] :
            /\ o.fail1 \in FailureChoices(FirstSummary(summary_arg, older_turns, o.resp1))
            /\ o.fail2 \in FailureChoices(VerbatimTurnsText(VerbatimOf(history_arg))) }
      Resummarizes(o) == BranchTaken(summary_arg, history_arg, o) = "resum"
  IN { o \in step3 : ~Resummarizes(o) }
       \cup UNION { { [o EXCEPT !.resp2 = r, !.fail3 = f] :
                        f \in FailureChoices(
                                summarize_history(older_turns, NoTarget, r)) } :
                    o \in { x \in step3 : Resummarizes(x) },
                    r \in scope.responses }

NoAbort ==
  [valid |-> FALSE, summary_before |-> EmptyText, callee_summary |-> EmptyText,
   chat_history_before |-> << >>, context_before |-> EmptyText]

\* lines 19-30: the module-level settings, before run_tutor starts
InitSettings(oracle, settings, explored) ==
  /\ pc = "startup"
  /\ chat_history = << >>
  /\ current_summary = EmptyText
  /\ history_context_string = EmptyText
  /\ question = 1
  /\ token_oracle = oracle
  /\ config = settings
  /\ scope = explored
  /\ turn_calls = 0
  /\ request = NoRequest
  /\ left_behind = FALSE
  /\ aborted = NoAbort
  /\ last = NoCall
  /\ prev = NoEarlier

InitWith(oracle, window, overhead, explored) ==
  InitSettings(oracle,
               [max_context_window |-> MAX_CONTEXT_WINDOW,
                last_verbatim_turns |-> window,
                prompt_overhead_estimate |-> overhead],
               explored)

\* short logs, every summarizer response
ShortLogs == [max_turns |-> MaxTurns, responses |-> SummarizerResponses]

\* longer logs, one summarizer response
LongLogs ==
  [max_turns |-> MaxTurnsLong,
   responses |-> { [kind |-> "ok", text |-> <<"sp", "w", "nl", "w">>] }]

Init == InitWith("reliable", LAST_VERBATIM_TURNS, PROMPT_OVERHEAD_ESTIMATE, ShortLogs)

\* short logs, a summarizer that answers with one text or fails
ShortLogsFewResponses ==
  [max_turns |-> MaxTurns,
   responses |-> { [kind |-> "ok", text |-> <<"sp", "w", "nl", "w">>],
                   [kind |-> "api", text |-> EmptyText] }]

\* token counts may fail
InitTransient ==
  InitWith("transient", LAST_VERBATIM_TURNS, PROMPT_OVERHEAD_ESTIMATE,
           ShortLogsFewResponses)

\* a session followed over more turns
InitLongSession ==
  InitWith("reliable", LAST_VERBATIM_TURNS, PROMPT_OVERHEAD_ESTIMATE, LongLogs)

\* the settings as shipped, and with an overhead estimate above the budget
InitAnyOverhead ==
  \E overhead \in {PROMPT_OVERHEAD_ESTIMATE,
                    (MAX_CONTEXT_WINDOW * HISTORY_TOKEN_BUDGET_PERCENT) \div 100 + 1} :
    InitWith("reliable", LAST_VERBATIM_TURNS, overhead, ShortLogs)

\* no turn is kept verbatim
InitNoVerbatim == InitWith("reliable", 0, PROMPT_OVERHEAD_ESTIMATE, ShortLogs)

\* a window of several turns and a budget that some of these windows fit
InitWideWindow ==
  InitSettings("reliable",
               [max_context_window |-> WideContextWindow,
                last_verbatim_turns |-> WideWindow,
                prompt_overhead_estimate |-> PROMPT_OVERHEAD_ESTIMATE],
               LongLogs)

\* lines 408-416: the question bank is loaded and the model configured, or the
\* program exits; no setting is compared with another
Startup ==
  /\ pc = "startup"
  /\ \E configured \in BOOLEAN : pc' = IF configured THEN "menu" ELSE "exit"
  /\ UNCHANGED <<chat_history, current_summary, history_context_string, question,
                 token_oracle, config, scope, aborted, turn_calls, request, left_behind,
                 last, prev>>

\* a variant that keeps the log and the summary of the concept before
SelectConceptKeepingLog ==
  /\ pc = "menu"
  /\ pc' = "manage"
  /\ question' = 1
  /\ turn_calls' = 0
  /\ request' = NoRequest
  /\ left_behind' = (chat_history # << >> \/ current_summary # EmptyText)
  /\ last' = NoCall
  /\ prev' = NoEarlier
  /\ UNCHANGED <<chat_history, current_summary, history_context_string, token_oracle,
                 config, scope, aborted>>

\* lines 441-444: a concept is selected, the session starts empty
SelectConcept ==
  /\ pc = "menu"
  /\ pc' = "manage"
  /\ chat_history' = << >>
  /\ current_summary' = EmptyText
  /\ question' = 1
  /\ turn_calls' = 0
  /\ request' = NoRequest
  /\ left_behind' = (chat_history # << >> \/ current_summary # EmptyText)
  /\ last' = NoCall
  /\ prev' = NoEarlier
  /\ UNCHANGED <<history_context_string, token_oracle, config, scope, aborted>>

\* the call itself, as both call sites make it
Call(next_pc) ==
  \E o \in OracleAnswers(current_summary, chat_history) :
    LET c == CallRecord(current_summary, chat_history, o)
    IN /\ history_context_string' = c.result.context
       /\ current_summary' = c.result.summary
       /\ last' = c
       /\ prev' = IF last.valid /\ last.chat_history = chat_history
                    THEN Earlier(last, c) ELSE NoEarlier
       /\ chat_history' = c.result.chat_history
       /\ turn_calls' = turn_calls + 1
       /\ request' = NoRequest
       /\ pc' = next_pc
       /\ UNCHANGED <<question, token_oracle, config, scope, aborted, left_behind>>

\* lines 463-467: history is managed before the input is read
ManageBeforeInput ==
  /\ pc = "manage"
  /\ Call("input")

\* a variant in which the callee's summary is the caller's
SummaryAfterAbortShared(caller_summary, callee_summary) == callee_summary

\* the caller's summary after a call that did not return: the callee binds
\* its own parameter current_summary (lines 223-260); the caller's name is
\* bound by the assignment of the returned pair (lines 465, 501) only
SummaryAfterAbort(caller_summary, callee_summary) == caller_summary

\* line 514: a call is interrupted before it returns, after step 1, 2 or 4,
\* and the program exits
Abort ==
  /\ pc \in {"manage", "manage_feedback"}
  /\ \E o \in OracleAnswers(current_summary, chat_history) :
       LET c == CallRecord(current_summary, chat_history, o)
       IN \E callee_summary \in
               { current_summary,
                 FirstSummary(current_summary, c.result.older_turns, o.resp1),
                 c.result.summary } :
            /\ current_summary' = SummaryAfterAbort(current_summary, callee_summary)
            /\ chat_history' = c.result.chat_history
            /\ aborted' = [valid |-> TRUE, summary_before |-> current_summary,
                           callee_summary |-> callee_summary,
                           chat_history_before |-> chat_history,
                           context_before |-> history_context_string]
  /\ pc' = "exit"
  /\ turn_calls' = 0
  /\ request' = NoRequest
  /\ left_behind' = FALSE
  /\ last' = NoCall
  /\ prev' = NoEarlier
  /\ UNCHANGED <<history_context_string, question, token_oracle, config, scope>>

\* line 473 (and 433): quit
InputQuit ==
  /\ pc \in {"menu", "input"}
  /\ pc' = "exit"
  /\ turn_calls' = 0
  /\ request' = NoRequest
  /\ left_behind' = FALSE
  /\ last' = NoCall
  /\ prev' = NoEarlier
  /\ UNCHANGED <<chat_history, current_summary, history_context_string, question,
                 token_oracle, config, scope, aborted>>

\* line 474: back to the menu
InputMenu ==
  /\ pc = "input"
  /\ pc' = "menu"
  /\ turn_calls' = 0
  /\ request' = NoRequest
  /\ left_behind' = FALSE
  /\ last' = NoCall
  /\ prev' = NoEarlier
  /\ UNCHANGED <<chat_history, current_summary, history_context_string, question,
                 token_oracle, config, scope, aborted>>

\* lines 475-483: a hint is requested and given
InputHint ==
  /\ pc = "input"
  /\ Len(chat_history) + 2 <= scope.max_turns
  /\ \E hint \in ReplyTexts :
       chat_history' = chat_history \o <<Turn("user", HintRequest), Turn("assistant", hint)>>
  /\ request' = Request("hint")
  /\ turn_calls' = 0
  /\ left_behind' = FALSE
  /\ pc' = "manage"
  /\ prev' = NoEarlier
  /\ UNCHANGED <<current_summary, history_context_string, question, token_oracle,
                 config, scope, aborted, last>>

\* a variant that logs the explanation without the user's phrase
InputConfusionReplyOnly ==
  /\ pc = "input"
  /\ Len(chat_history) + 2 <= scope.max_turns
  /\ \E explanation \in ReplyTexts :
       chat_history' = Append(chat_history, Turn("assistant", explanation))
  /\ request' = Request("explanation")
  /\ turn_calls' = 0
  /\ left_behind' = FALSE
  /\ pc' = "manage"
  /\ prev' = NoEarlier
  /\ UNCHANGED <<current_summary, history_context_string, question, token_oracle,
                 config, scope, aborted, last>>

\* lines 484-492: the user is stuck and gets a scaffolded explanation
InputConfusion ==
  /\ pc = "input"
  /\ Len(chat_history) + 2 <= scope.max_turns
  /\ \E raw \in RawConfusions, explanation \in ReplyTexts :
       chat_history' =
         chat_history \o <<Turn("user", Strip(raw)), Turn("assistant", explanation)>>
  /\ request' = Request("explanation")
  /\ turn_calls' = 0
  /\ left_behind' = FALSE
  /\ pc' = "manage"
  /\ prev' = NoEarlier
  /\ UNCHANGED <<current_summary, history_context_string, question, token_oracle,
                 config, scope, aborted, last>>

\* line 493: an empty input is asked again
InputEmpty ==
  /\ pc = "input"
  /\ pc' = "manage"
  /\ request' = NoRequest
  /\ turn_calls' = 0
  /\ left_behind' = FALSE
  /\ prev' = NoEarlier
  /\ UNCHANGED <<chat_history, current_summary, history_context_string, question,
                 token_oracle, config, scope, aborted, last>>

\* a variant that puts the answer in the place of the last turn
InputAnswerOverLastTurn ==
  /\ pc = "input"
  /\ Len(chat_history) + 2 <= scope.max_turns
  /\ \E raw \in RawAnswers :
       chat_history' =
         IF chat_history = << >> THEN << Turn("user", Strip(raw)) >>
         ELSE [chat_history EXCEPT ![Len(chat_history)] = Turn("user", Strip(raw))]
  /\ pc' = "manage_feedback"
  /\ request' = NoRequest
  /\ left_behind' = FALSE
  /\ prev' = NoEarlier
  /\ UNCHANGED <<current_summary, history_context_string, question, token_oracle,
                 config, scope, aborted, turn_calls, last>>

\* lines 495-498: an answer is appended to the log
InputAnswer ==
  /\ pc = "input"
  /\ Len(chat_history) + 2 <= scope.max_turns
  /\ \E raw \in RawAnswers :
       chat_history' = Append(chat_history, Turn("user", Strip(raw)))
  /\ pc' = "manage_feedback"
  /\ request' = NoRequest
  /\ left_behind' = FALSE
  /\ prev' = NoEarlier
  /\ UNCHANGED <<current_summary, history_context_string, question, token_oracle,
                 config, scope, aborted, turn_calls, last>>

\* a variant that goes on to the feedback without a second call
ManageBeforeFeedbackSkipped ==
  /\ pc = "manage_feedback"
  /\ pc' = "feedback"
  /\ request' = NoRequest
  /\ prev' = NoEarlier
  /\ UNCHANGED <<chat_history, current_summary, history_context_string, question,
                 token_oracle, config, scope, aborted, turn_calls, left_behind, last>>

\* a variant whose second call is given the log without the answer
ManageBeforeFeedbackWithoutAnswer ==
  /\ pc = "manage_feedback"
  /\ \E o \in OracleAnswers(current_summary,
                             SubSeq(chat_history, 1, Len(chat_history) - 1)) :
       LET c == CallRecord(current_summary,
                           SubSeq(chat_history, 1, Len(chat_history) - 1), o)
       IN /\ history_context_string' = c.result.context
          /\ current_summary' = c.result.summary
          /\ last' = c
  /\ turn_calls' = turn_calls + 1
  /\ request' = NoRequest
  /\ prev' = NoEarlier
  /\ pc' = "feedback"
  /\ UNCHANGED <<chat_history, question, token_oracle, config, scope, aborted,
                 left_behind>>

\* lines 500-503: history is managed again, the answer included
ManageBeforeFeedback ==
  /\ pc = "manage_feedback"
  /\ Call("feedback")

\* lines 505-512: feedback is given and appended; on to the next question
Feedback ==
  /\ pc = "feedback"
  /\ \E feedback \in ReplyTexts :
       chat_history' = Append(chat_history, Turn("assistant", feedback))
  /\ request' = Request("feedback")
  /\ turn_calls' = 0
  /\ IF question < NumQuestions
       THEN pc' = "manage" /\ question' = question + 1
       ELSE pc' = "menu" /\ question' = question
  /\ prev' = NoEarlier
  /\ UNCHANGED <<current_summary, history_context_string, token_oracle, config, scope,
                 aborted, left_behind, last>>

Next ==
  \/ Startup
  \/ SelectConcept
  \/ ManageBeforeInput
  \/ Abort
  \/ InputQuit
  \/ InputMenu
  \/ InputHint
  \/ InputConfusion
  \/ InputEmpty
  \/ InputAnswer
  \/ ManageBeforeFeedback
  \/ Feedback

Spec == Init /\ [][Next]_vars

SpecTransient == InitTransient /\ [][Next]_vars

SpecAnyOverhead == InitAnyOverhead /\ [][Next]_vars

SpecNoVerbatim == InitNoVerbatim /\ [][Next]_vars

SpecLongSession == InitLongSession /\ [][Next]_vars

SpecWideWindow == InitWideWindow /\ [][Next]_vars

\* ------------------------------------------------------------------------
\* format_history_for_prompt on its own: one call on a summary and a list of
\* turns such as manage_history_and_get_context hands over
\* ------------------------------------------------------------------------
\* summaries as summarize_history returns them (stripped), the discard marker
\* and the empty summary
FormatSummaries ==
  { EmptyText, <<"w">>, <<"w", "nl", "w">>, DiscardedMarker }

\* the contents run_tutor logs: stripped inputs and replies, the hint request
FormatContents == { <<"w">>, <<"w", "nl", "w">>, HintRequest }

FormatTurns == { Turn(role, content) : role \in {"user", "assistant"},
                                       content \in FormatContents }

FormatTurnLists ==
  UNION { [1..n -> FormatTurns] : n \in 0..MaxFormatTurns }

InitFormat ==
  /\ pc = "format"
  /\ chat_history = << >>
  /\ current_summary = EmptyText
  /\ history_context_string = EmptyText
  /\ question = 1
  /\ token_oracle = "reliable"
  /\ config = [max_context_window |-> MAX_CONTEXT_WINDOW,
               last_verbatim_turns |-> LAST_VERBATIM_TURNS,
               prompt_overhead_estimate |-> PROMPT_OVERHEAD_ESTIMATE]
  /\ scope = ShortLogs
  /\ turn_calls = 0
  /\ request = NoRequest
  /\ left_behind = FALSE
  /\ aborted = NoAbort
  /\ last = NoCall
  /\ prev = NoEarlier

\* history_context_string = format_history_for_prompt(current_summary,
\* verbatim_turns): the arguments are kept next to the block
FormatBlock ==
  /\ pc = "format"
  /\ \E summary \in FormatSummaries, verbatim_turns \in FormatTurnLists :
       /\ current_summary' = summary
       /\ chat_history' = verbatim_turns
       /\ history_context_string' = format_history_for_prompt(summary, verbatim_turns)
  /\ pc' = "formatted"
  /\ UNCHANGED <<question, token_oracle, config, scope, turn_calls, request,
                 left_behind, aborted, last, prev>>

SpecFormat == InitFormat /\ [][FormatBlock]_vars

\* ------------------------------------------------------------------------
\* Reading a Context Block back
\* ------------------------------------------------------------------------
\* the inverse of Indent
RECURSIVE Unindent(_)
Unindent(t) ==
  IF t = << >> THEN << >>
  ELSE IF Len(t) >= 3 /\ SubSeq(t, 1, 3) = <<"nl", "sp", "sp">>
    THEN <<"nl">> \o Unindent(SubSeq(t, 4, Len(t)))
  ELSE <<Head(t)>> \o Unindent(Tail(t))

Uncapitalize(role) ==
  CASE role = "User" -> "user"
    [] role = "Assistant" -> "assistant"
    [] OTHER -> role

\* the position of the next "- Role:" entry after position i, or past the end
NextEntry(t, i) ==
  LET later == { j \in (i + 1)..Len(t) : t[j] = "-" }
  IN IF later = {} THEN Len(t) + 2
     ELSE CHOOSE j \in later : \A k \in later : j <= k

\* the turns listed from position i on
RECURSIVE TurnsFrom(_, _)
TurnsFrom(t, i) ==
  IF i > Len(t) THEN << >>
  ELSE LET entry == SubSeq(t, i, NextEntry(t, i) - 2)
       IN << Turn(Uncapitalize(entry[2]), Unindent(SubSeq(entry, 6, Len(entry)))) >>
            \o TurnsFrom(t, NextEntry(t, i))

\* the verbatim section of a Context Block: the turns it lists, in order
VerbatimSection(context) == TurnsFrom(context, NextEntry(context, 0))

\* whether a Context Block has a summary section
HasSummarySection(context) ==
  \E i \in 1..Len(context) : context[i] = HdrSummary[1]

\* the last min(n, |log|) turns of a log
LastTurns(log, n) ==
  SubSeq(log, Len(log) - (IF n <= Len(log) THEN n ELSE Len(log)) + 1, Len(log))

\* the turns of a log before its last n
TurnsBefore(log, n) == SubSeq(log, 1, Len(log) - Len(LastTurns(log, n)))

\* whether the last LAST_VERBATIM_TURNS turns of a call's log, rendered, were
\* counted above the budget in that call
WindowOverBudget(call) ==
  count_tokens(VerbatimTurnsText(LastTurns(call.chat_history, LAST_VERBATIM_TURNS)),
               call.answers.fail2) > history_token_budget

\* what a consistent token oracle counts for the two parts of a result
MeasuredTotal(r) ==
  count_tokens(r.summary, FALSE)
    + count_tokens(VerbatimTurnsText(r.verbatim_turns), FALSE)

\* ------------------------------------------------------------------------
\* Properties
\* ------------------------------------------------------------------------

C2_BlockWithinBudget ==
  last.valid => count_tokens(last.result.context, FALSE) <= history_token_budget

\* C3 as stated: when the verbatim window alone measures more than the budget
\* the call returns an empty summary, no verbatim turn and the no-history
\* marker as Context Block.
C3_HardOverflowReturnsEmptyHistory ==
  (last.valid /\ last.result.verbatim_tokens > history_token_budget) =>
    /\ last.result.summary = EmptyText
    /\ last.result.verbatim_turns = << >>
    /\ last.result.context = NoHistoryMarker

\* what a caller can see of a degraded result: a summary and no turn listed
LooksDegraded(context, summary) ==
  summary # EmptyText /\ VerbatimSection(context) = << >>

\* C4: the returned pair tells a hard overflow from every other result: it
\* carries a summary and lists no turn exactly when the history was discarded.
C4_HardOverflowIsReported ==
  last.valid =>
    (LooksDegraded(last.result.context, last.result.summary)
       <=> last.result.branch = "hard")

\* C4 witness: a hard overflow has been returned
C4_Witness ==
  /\ last.valid
  /\ last.result.branch = "hard"
  /\ LooksDegraded(history_context_string, current_summary)

OlderNotListed(call) ==
  LET listed == VerbatimSection(call.result.context)
  IN /\ Len(listed) <= Len(LastTurns(call.chat_history, LAST_VERBATIM_TURNS))
     /\ listed = LastTurns(call.chat_history, Len(listed))

\* the returned summary is the answer to a summarizer request that carried
\* every older turn
OlderFoldedIntoSummary(call) ==
  LET r == call.result
      older == TurnsBefore(call.chat_history, LAST_VERBATIM_TURNS)
  IN older # << >> =>
       /\ r.summary_call \in 1..Len(r.calls)
       /\ r.calls[r.summary_call].turns = older
       /\ r.calls[r.summary_call].prompt_turns = TurnsText(older)
       /\ r.calls[r.summary_call].result = r.summary

\* C7 as stated: in every call no older turn is listed verbatim, and every
\* older turn was in the request of the summarizer call whose answer is the
\* returned summary.
C7_OlderOnlyThroughSummary ==
  last.valid => OlderNotListed(last) /\ OlderFoldedIntoSummary(last)

\* C7 amended: the same, except on hard overflow, where the older turns are
\* dropped with the rest of the history and the returned summary is the
\* discard marker, not a summary of them.
C7_OlderOnlyThroughSummaryUnlessHardOverflow ==
  last.valid =>
    /\ OlderNotListed(last)
    /\ ~WindowOverBudget(last) => OlderFoldedIntoSummary(last)
    /\ WindowOverBudget(last) => last.result.summary = DiscardedMarker

\* C7 witness: older turns went into a second summarizer request, whose answer
\* was returned
C7_Witness ==
  /\ last.valid
  /\ TurnsBefore(last.chat_history, LAST_VERBATIM_TURNS) # << >>
  /\ last.result.summary_call = 2
  /\ current_summary = last.result.calls[2].result
  /\ current_summary # EmptyText

\* C8: two calls with the same log and the same oracle answers return the
\* same Context Block and the same summary, whatever the previous summaries;
\* with older turns the summarizer is asked about exactly them in every call.
C8_PreviousSummaryIgnored ==
  /\ (prev.valid /\ prev.same_answers) =>
       /\ prev.context = last.result.context
       /\ prev.summary = last.result.summary
  /\ (last.valid /\ TurnsBefore(last.chat_history, LAST_VERBATIM_TURNS) # << >>) =>
       /\ last.result.calls # << >>
       /\ last.result.calls[1].turns
            = TurnsBefore(last.chat_history, LAST_VERBATIM_TURNS)

\* C8 witness: two calls with the same log and answers, with different
\* previous summaries, the later one not empty
C8_Witness ==
  /\ prev.valid
  /\ prev.same_answers
  /\ prev.other_previous_summary
  /\ last.previous_summary # EmptyText
  /\ last.result.calls # << >>

C10_SummaryPresenceStable ==
  prev.valid =>
    (HasSummarySection(prev.context) <=> HasSummarySection(last.result.context))

\* the summary counted at step 3 of a call: the first summarizer answer, or
\* the empty text when the log has no older turns
FirstSummaryOf(call) ==
  IF call.result.calls = << >> THEN EmptyText ELSE call.result.calls[1].result

\* C11: every token count of a call is 0 for the empty text (the model is not
\* asked), 0 when the model call fails, and the model's non-negative count
\* otherwise; after a failed count the call goes on with the value 0 and
\* returns a Context Block.
C11_FailedCountIsZero ==
  last.valid =>
    LET r == last.result
        a == last.answers
        window_text == VerbatimTurnsText(LastTurns(last.chat_history, LAST_VERBATIM_TURNS))
        first_summary == FirstSummaryOf(last)
        Counted(text, fails) ==
          IF text = EmptyText \/ fails THEN 0 ELSE Len(text)
    IN /\ r.verbatim_tokens = Counted(window_text, a.fail2)
       /\ r.verbatim_tokens >= 0 /\ r.summary_tokens >= 0
       /\ window_text = EmptyText => ~a.fail2
       /\ first_summary = EmptyText => ~a.fail1
       /\ r.branch # "resum" => r.summary_tokens = Counted(first_summary, a.fail1)
       /\ r.branch = "resum" => r.summary_tokens = Counted(r.summary, a.fail3)
       /\ r.total_tokens = r.summary_tokens + r.verbatim_tokens
       /\ a.fail2 => /\ r.allowed_summary_tokens = history_token_budget
                     /\ r.branch # "hard"
                     /\ r.verbatim_turns = LastTurns(last.chat_history, LAST_VERBATIM_TURNS)
       /\ r.context = format_history_for_prompt(r.summary, r.verbatim_turns)
       /\ r.context # EmptyText
       /\ history_context_string = r.context

\* C11 witness: the count of a non-empty window failed, the count of a
\* non-empty summary did not, and the call returned the window listed
C11_Witness ==
  /\ last.valid
  /\ last.answers.fail2 /\ ~last.answers.fail1
  /\ last.result.verbatim_tokens = 0
  /\ last.result.summary_tokens > 0
  /\ last.result.verbatim_turns # << >>
  /\ VerbatimSection(history_context_string) = last.result.verbatim_turns

\* the summary section of a Context Block: the text between its two labels
SummarySection(context) ==
  IF ~HasSummarySection(context) THEN EmptyText
  ELSE LET k == CHOOSE i \in 1..Len(context) : context[i] = HdrRecent[1]
       IN Unindent(SubSeq(context, 5, k - 3))

FailureKinds == {"notext", "api", "unexpected"}

\* the marked text that stands for a failed summarization
PlaceholderOf(kind) ==
  CASE kind = "notext" -> <<"[Summarization failed]">>
    [] kind = "api" -> <<"[Summarization failed due to API error]">>
    [] kind = "unexpected" -> <<"[Summarization failed due to unexpected error]">>

\* the summarizer responses of a call, in the order of its requests
ResponsesOf(call) ==
  IF Len(call.result.calls) = 2 THEN <<call.answers.resp1, call.answers.resp2>>
  ELSE IF Len(call.result.calls) = 1 THEN <<call.answers.resp1>>
  ELSE << >>

\* C12 as stated: whenever the first or the re-targeted summarization of a
\* call fails, the returned Context Block carries that failure's placeholder
\* in its summary section.
C12_PlaceholderAlwaysInBlock ==
  last.valid =>
    \A i \in 1..Len(ResponsesOf(last)) :
      ResponsesOf(last)[i].kind \in FailureKinds =>
        SummarySection(last.result.context) = PlaceholderOf(ResponsesOf(last)[i].kind)

\* C12 amended: a failed summarization returns its placeholder and the call
\* still returns a Context Block to the running session; the block carries
\* the placeholder in its summary section when the failed summarization is
\* the one whose answer the call keeps (the last it makes, and no hard
\* overflow); otherwise the re-targeted answer or the discard marker stands
\* in its place.
C12_PlaceholderOfKeptSummaryInBlock ==
  last.valid =>
    LET r == last.result
        resps == ResponsesOf(last)
    IN /\ \A i \in 1..Len(resps) :
            resps[i].kind \in FailureKinds =>
              r.calls[i].result = PlaceholderOf(resps[i].kind)
       /\ \A i \in 1..Len(resps) :
            resps[i].kind \in FailureKinds /\ r.summary_call = i =>
              /\ r.summary = PlaceholderOf(resps[i].kind)
              /\ SummarySection(r.context) = PlaceholderOf(resps[i].kind)
       /\ (r.summary_call = 0 /\ resps # << >>) =>
            SummarySection(r.context) = DiscardedMarker
       /\ (r.summary_call = 2 /\ resps[2].kind = "ok") =>
            SummarySection(r.context) = Strip(resps[2].text)
       /\ history_context_string = r.context
       /\ current_summary = r.summary
       /\ r.context # EmptyText
       /\ pc # "exit"

\* C12 witness: the first summarization failed, the re-targeted one failed in
\* another way, and the block carries the placeholder of the second
C12_Witness ==
  /\ last.valid
  /\ last.result.summary_call = 2
  /\ last.answers.resp1.kind = "notext"
  /\ last.answers.resp2.kind = "api"
  /\ SummarySection(history_context_string) = <<"[Summarization failed due to API error]">>
  /\ VerbatimSection(history_context_string) # << >>

\* C13 as stated: with a history token budget below the prompt overhead
\* estimate the program stops at startup: the history manager is never
\* called and the session loop, where model requests are made, never entered.
C13_SmallBudgetRejectedAtStartup ==
  history_token_budget < config.prompt_overhead_estimate =>
    /\ pc \in {"startup", "exit"}
    /\ ~last.valid
    /\ chat_history = << >>

\* a step taken where the history manager is called
CallLeavesLogAndSettings ==
  pc \in {"manage", "manage_feedback"} =>
    /\ chat_history' = chat_history
    /\ Len(chat_history') = Len(chat_history)
    /\ token_oracle' = token_oracle
    /\ config' = config
    /\ question' = question
    /\ last'.valid => last'.chat_history = chat_history

\* C14: a step that calls the history manager leaves the caller's turn log
\* as it was, turn for turn, and changes none of the module-level settings,
\* whichever path the call takes; what it changes is what it returns.
C14_CallOnlyReadsLog == [][CallLeavesLogAndSettings]_vars

\* C14 witness: a call took the hard-overflow path, listed no turn, and the
\* caller's log still holds every turn
C14_Witness ==
  /\ pc = "feedback"
  /\ last.valid /\ last.result.branch = "hard"
  /\ last.result.verbatim_turns = << >>
  /\ chat_history = last.chat_history
  /\ chat_history # << >>

\* whether a sequence of turns is the first turns of a log
IsPrefix(turns, log) ==
  Len(turns) <= Len(log) /\ SubSeq(log, 1, Len(turns)) = turns

\* whether a sequence of turns is the last turns of a log
IsSuffix(turns, log) ==
  Len(turns) <= Len(log) /\ SubSeq(log, Len(log) - Len(turns) + 1, Len(log)) = turns

\* whether a Context Block is made of the turns of a log only: the turns it
\* lists are the last turns of the log, and its summary is empty, the discard
\* marker, or the summarizer's answer to a request made of first turns of the log
MadeOfLogOnly(context, call, log) ==
  /\ IsSuffix(VerbatimSection(context), log)
  /\ \A i \in 1..Len(call.result.calls) :
       /\ IsPrefix(call.result.calls[i].turns, log)
       /\ call.result.calls[i].prompt_turns = TurnsText(call.result.calls[i].turns)
  /\ \/ SummarySection(context) \in {EmptyText, DiscardedMarker}
     \/ \E i \in 1..Len(call.result.calls) :
          SummarySection(context) = call.result.calls[i].result

\* C15: a concept just selected has an empty turn log and an empty summary,
\* whatever the concept before it left; the first Context Block computed for
\* it says there is no history, and every context sent in a model request is
\* made of the turns logged for this concept only.
C15_NewTopicStartsEmpty ==
  /\ (pc = "manage" /\ ~last.valid) =>
       chat_history = << >> /\ current_summary = EmptyText
  /\ (pc = "input" /\ chat_history = << >>) =>
       history_context_string = NoHistoryMarker /\ current_summary = EmptyText
  /\ request.valid =>
       /\ last.valid
       /\ request.context = last.result.context
       /\ last.chat_history = request.chat_history
       /\ IsPrefix(request.chat_history, chat_history)
       /\ MadeOfLogOnly(request.context, last, request.chat_history)
       /\ request.after_switch =>
            request.chat_history = << >> /\ request.context = NoHistoryMarker

\* C15 witness: the first request for a concept selected while the log of the
\* concept before it still held turns: the context sent says there is no
\* history
C15_Witness ==
  /\ request.valid /\ request.after_switch
  /\ request.kind = "hint"
  /\ request.context = NoHistoryMarker
  /\ Len(chat_history) = 2

\* a step of run_tutor within a concept's session
SessionStepExtendsLog ==
  pc \notin {"startup", "menu"} =>
    /\ IsPrefix(chat_history, chat_history')
    /\ Len(chat_history') >= Len(chat_history)
    /\ \A i \in 1..Len(chat_history) :
         /\ chat_history'[i].role = chat_history[i].role
         /\ chat_history'[i].content = chat_history[i].content

\* C16: within the session of one concept every step of run_tutor leaves the
\* turn log an extension of what it was: the turns it held keep their
\* position, role and content, whatever mix of hints, confusion requests,
\* empty inputs and answers is handled.
C16_LogIsAppendOnly == [][SessionStepExtendsLog]_vars

\* C16 witness: one session's log holds a hint exchange, then a confusion
\* exchange, then an answer and its feedback, in the order they were handled
C16_Witness ==
  /\ Len(chat_history) = 6
  /\ chat_history[1] = Turn("user", HintRequest)
  /\ chat_history[2].role = "assistant"
  /\ chat_history[3] = Turn("user", <<"stuck">>)
  /\ chat_history[4].role = "assistant"
  /\ chat_history[5].role = "user"
  /\ request.valid /\ request.kind = "feedback"
  /\ request.chat_history = SubSeq(chat_history, 1, 5)

\* C17 as stated: when a model request is made for a user input (hint,
\* confusion phrase or answer), the history manager has run exactly once in
\* that pass of the input loop, and has returned.
C17_OneCallPerUserTurn ==
  request.valid =>
    /\ request.calls = 1
    /\ last.valid /\ request.context = last.result.context

\* C17 amended: when a model request is made, the history manager has run
\* and returned in that pass of the input loop, and the context sent is the
\* one its latest call returned; it has run exactly once for a hint or a
\* confusion phrase, and exactly twice for an answer: once before the input
\* was read and once after the answer was appended.  A pass that reads an
\* empty input, 'menu' or 'quit' runs it once and makes no request.
C17_CallsBeforeEachRequest ==
  /\ request.valid =>
       /\ request.calls = IF request.kind = "feedback" THEN 2 ELSE 1
       /\ last.valid /\ request.context = last.result.context
       /\ turn_calls = 0
  /\ pc = "manage" => turn_calls = 0
  /\ pc \in {"input", "manage_feedback"} => turn_calls = 1 /\ last.valid
  /\ pc = "feedback" => turn_calls = 2 /\ last.valid
  /\ pc \in {"input", "feedback"} => history_context_string = last.result.context

\* C17 witness: a feedback request made after two calls in its pass, in a
\* session whose earlier hint request was made after one
C17_Witness ==
  /\ request.valid /\ request.kind = "feedback"
  /\ request.calls = 2
  /\ Len(request.chat_history) = 3
  /\ request.chat_history[1] = Turn("user", HintRequest)

\* C18: the context sent with a model request is the one the history manager
\* returned for the whole turn log as it stands when the request is made: the
\* call was given that very log, split it whole into older and verbatim
\* turns, and nothing was appended in between; for feedback that log ends
\* with the user's answer, and the reply is appended only after the request.
C18_RequestCarriesContextOfCurrentLog ==
  request.valid =>
    /\ last.valid
    /\ request.context = last.result.context
    /\ last.chat_history = request.chat_history
    /\ last.result.older_turns \o last.result.window_turns = request.chat_history
    /\ request.kind = "feedback" =>
         /\ request.chat_history # << >>
         /\ request.chat_history[Len(request.chat_history)].role = "user"
         /\ \E raw \in RawAnswers :
              request.chat_history[Len(request.chat_history)].content = Strip(raw)
         /\ Len(chat_history) = Len(request.chat_history) + 1
         /\ chat_history[Len(chat_history)].role = "assistant"
    /\ request.kind \in {"hint", "explanation"} =>
         /\ Len(chat_history) = Len(request.chat_history) + 2
         /\ chat_history[Len(chat_history) - 1].role = "user"
         /\ chat_history[Len(chat_history)].role = "assistant"
    /\ IsPrefix(request.chat_history, chat_history)

\* C18 witness: a feedback request whose context lists the answer just
\* appended to a log that already held a hint exchange
C18_Witness ==
  /\ request.valid /\ request.kind = "feedback"
  /\ Len(request.chat_history) = 3
  /\ VerbatimSection(request.context) = << request.chat_history[3] >>
  /\ HasSummarySection(request.context)
  /\ last.result.older_turns = SubSeq(request.chat_history, 1, 2)

\* C19: with LAST_VERBATIM_TURNS = 0 every call has an empty verbatim
\* partition and the whole log as its older partition, asks the summarizer
\* for a summary of the whole log when there is one, and returns a Context
\* Block that lists no turn: the no-history text when the summary is empty,
\* the summary section followed by the no-verbatim line otherwise.
C19_ZeroWindowSummarizesAll ==
  (config.last_verbatim_turns = 0 /\ last.valid) =>
    LET r == last.result
    IN /\ r.window_turns = << >>
       /\ r.verbatim_turns = << >>
       /\ r.older_turns = last.chat_history
       /\ r.verbatim_tokens = 0
       /\ last.chat_history # << >> =>
            /\ r.calls # << >>
            /\ \A i \in 1..Len(r.calls) : r.calls[i].turns = last.chat_history
            /\ r.summary = r.calls[Len(r.calls)].result
       /\ last.chat_history = << >> => r.calls = << >> /\ r.summary = EmptyText
       /\ VerbatimSection(r.context) = << >>
       /\ r.context =
            IF r.summary = EmptyText THEN NoHistoryMarker
            ELSE JoinNl(<< HdrSummary, <<"sp", "sp">> \o Indent(r.summary),
                           <<"nl">> \o HdrRecent, NoVerbatimLine >>)
       /\ history_context_string = r.context
       /\ current_summary = r.summary

\* C19 witness: with a window of 0 a log of two turns was summarized whole,
\* and the block returned carries the summary and lists no turn
C19_Witness ==
  /\ config.last_verbatim_turns = 0
  /\ last.valid /\ Len(last.chat_history) = 2
  /\ last.result.older_turns = last.chat_history
  /\ SummarySection(history_context_string) = <<"w", "nl", "w">>
  /\ VerbatimSection(history_context_string) = << >>

\* a step of run_tutor, seen from the caller's summary, log and context
AbortCommitsNothing ==
  /\ (pc \in {"manage", "manage_feedback"} /\ pc' = "exit") =>
       /\ aborted'.valid
       /\ current_summary' = current_summary
       /\ chat_history' = chat_history
       /\ history_context_string' = history_context_string
  /\ aborted'.valid =>
       /\ current_summary' = aborted'.summary_before
       /\ chat_history' = aborted'.chat_history_before
       /\ history_context_string' = aborted'.context_before
  /\ (pc \in {"manage", "manage_feedback"} /\ current_summary' # current_summary) =>
       /\ pc' \in {"input", "feedback"}
       /\ last'.valid
       /\ last'.previous_summary = current_summary
       /\ current_summary' = last'.result.summary
       /\ history_context_string' = last'.result.context
  /\ current_summary' # current_summary => pc \in {"menu", "manage", "manage_feedback"}

\* C20: a call of the history manager that is interrupted before it returns
\* leaves the caller's summary, turn log and context as they were before the
\* call, whatever the call had computed by then; the caller's summary takes
\* a new value during a session only in a step in which a call returns, and
\* then it is the summary that call returned.
C20_AbortedCallCommitsNothing == [][AbortCommitsNothing]_vars

\* C20 witness: a call was interrupted when it had computed a summary other
\* than the non-empty one the caller retained, and the caller still holds
\* its own
C20_Witness ==
  /\ pc = "exit"
  /\ aborted.valid
  /\ aborted.summary_before # EmptyText
  /\ aborted.callee_summary # aborted.summary_before
  /\ current_summary = aborted.summary_before
  /\ chat_history = aborted.chat_history_before
  /\ chat_history # << >>

\* what count_tokens gives for a text, given whether the model call fails
Counted(text, fails) == IF text = EmptyText \/ fails THEN 0 ELSE Len(text)

\* the first measurement of a call: the first summary and the rendered
\* window, as step 3 counts them
FirstTotal(call) ==
  Counted(FirstSummaryOf(call), call.answers.fail1)
    + Counted(VerbatimTurnsText(LastTurns(call.chat_history, LAST_VERBATIM_TURNS)),
              call.answers.fail2)

\* C21: when the first measurement of a call is within the budget, the call
\* makes no summarizer request beyond the first (none at all without older
\* turns), gives no length target, and returns the first summary and the whole
\* verbatim window, formatted.
C21_WithinBudgetReturnsFirstResult ==
  (last.valid /\ FirstTotal(last) <= history_token_budget) =>
    LET r == last.result
        older == TurnsBefore(last.chat_history, LAST_VERBATIM_TURNS)
        window == LastTurns(last.chat_history, LAST_VERBATIM_TURNS)
    IN /\ Len(r.calls) = IF older = << >> THEN 0 ELSE 1
       /\ \A i \in 1..Len(r.calls) : ~r.calls[i].guidance.given
       /\ r.summary = FirstSummaryOf(last)
       /\ r.verbatim_turns = window
       /\ r.total_tokens = FirstTotal(last)
       /\ r.context = format_history_for_prompt(FirstSummaryOf(last), window)
       /\ current_summary = r.summary
       /\ VerbatimSection(history_context_string) = window

\* C21 witness: a first summary and a window that together measure within
\* the budget were returned after one summarizer request
C21_Witness ==
  /\ last.valid
  /\ FirstTotal(last) <= history_token_budget
  /\ FirstTotal(last) > 0
  /\ Len(last.result.calls) = 1
  /\ last.result.summary # EmptyText
  /\ SummarySection(history_context_string) = last.result.calls[1].result
  /\ VerbatimSection(history_context_string) # << >>

\* what a call may spend on the summary: the budget less the counted window
AllowedForSummary(call) ==
  history_token_budget
    - Counted(VerbatimTurnsText(LastTurns(call.chat_history, LAST_VERBATIM_TURNS)),
              call.answers.fail2)

\* C22 as stated: whenever the first total exceeds the budget, there are older
\* turns and 0 <= allowed_summary_tokens < summary_tokens, the summarizer is
\* asked again about the same older turns, and that request carries a length
\* target derived from allowed_summary_tokens.
C22_RetargetedRequestCarriesTarget ==
  LET older == TurnsBefore(last.chat_history, LAST_VERBATIM_TURNS)
  IN ( /\ last.valid
       /\ FirstTotal(last) > history_token_budget
       /\ older # << >>
       /\ 0 <= AllowedForSummary(last)
       /\ AllowedForSummary(last) < Counted(FirstSummaryOf(last), last.answers.fail1) ) =>
       /\ Len(last.result.calls) = 2
       /\ last.result.calls[2].turns = older
       /\ last.result.calls[2].prompt_turns = last.result.calls[1].prompt_turns
       /\ last.result.calls[2].guidance.given
       /\ last.result.calls[2].guidance.tokens = AllowedForSummary(last)

\* C23: a call asks the summarizer at most twice and not at all without older
\* turns; it asks a second time exactly when the first total is over the
\* budget, there are older turns and the first summary measures more than the
\* window leaves; it then measures the second summary once and returns it with
\* the whole window, over the budget or not, without asking again.
C23_AtMostTwoSummarizerCalls ==
  last.valid =>
    LET r == last.result
        older == TurnsBefore(last.chat_history, LAST_VERBATIM_TURNS)
        window == LastTurns(last.chat_history, LAST_VERBATIM_TURNS)
        again == /\ FirstTotal(last) > history_token_budget
                 /\ older # << >>
                 /\ 0 <= AllowedForSummary(last)
                 /\ AllowedForSummary(last)
                      < Counted(FirstSummaryOf(last), last.answers.fail1)
    IN /\ Len(r.calls) <= 2
       /\ older = << >> => r.calls = << >>
       /\ older # << >> => Len(r.calls) = IF again THEN 2 ELSE 1
       /\ Len(r.calls) = 2 =>
            /\ r.calls[2].turns = older
            /\ r.summary = r.calls[2].result
            /\ r.summary_tokens = Counted(r.calls[2].result, last.answers.fail3)
            /\ r.total_tokens = r.summary_tokens + r.verbatim_tokens
            /\ r.verbatim_turns = window
            /\ r.context = format_history_for_prompt(r.calls[2].result, window)
       /\ history_context_string = r.context
       /\ current_summary = r.summary
       /\ pc # "exit"

\* C23 witness: the second summary still left the total over the budget, and
\* the call returned it with the window
C23_Witness ==
  /\ last.valid
  /\ Len(last.result.calls) = 2
  /\ last.result.total_tokens > history_token_budget
  /\ last.result.summary = last.result.calls[2].result
  /\ SummarySection(history_context_string) = last.result.calls[2].result
  /\ VerbatimSection(history_context_string)
       = LastTurns(last.chat_history, LAST_VERBATIM_TURNS)

\* the position of a label in a text, 0 when it is absent
PositionOf(label, text) ==
  LET at == { i \in 1..Len(text) : text[i] = label }
  IN IF at = {} THEN 0 ELSE CHOOSE i \in at : \A k \in at : i <= k

\* C24: the Context Block has a labeled summary section exactly when the
\* summary is non-empty; that section comes first and is followed by a labeled
\* recent-turns section that lists every verbatim turn with its role in log
\* order; with an empty summary and no turns the block is exactly the
\* no-history marker.
C24_BlockLayout ==
  pc = "formatted" =>
    LET c == history_context_string
        s == current_summary
        v == chat_history
    IN /\ HasSummarySection(c) <=> s # EmptyText
       /\ s # EmptyText =>
            /\ PositionOf(HdrSummary[1], c) = 1
            /\ SummarySection(c) = s
            /\ PositionOf(HdrRecent[1], c) > 1
            /\ \A i \in 1..Len(c) : c[i] = "-" => i > PositionOf(HdrRecent[1], c)
            /\ PositionOf(HdrRecentOnly[1], c) = 0
       /\ (s = EmptyText /\ v # << >>) =>
            /\ PositionOf(HdrRecentOnly[1], c) = 1
            /\ PositionOf(HdrRecent[1], c) = 0
       /\ VerbatimSection(c) = v
       /\ (s = EmptyText /\ v = << >>) => c = NoHistoryMarker
       /\ c = NoHistoryMarker => (s = EmptyText /\ v = << >>)

\* C24 witness: a block with a summary section followed by two different
\* turns, listed in the order of the log
C24_Witness ==
  /\ pc = "formatted"
  /\ current_summary # EmptyText
  /\ Len(chat_history) = 2
  /\ chat_history[1] # chat_history[2]
  /\ SummarySection(history_context_string) = current_summary
  /\ VerbatimSection(history_context_string) = chat_history

\* C25: turns are never truncated or partially dropped: the turns a call
\* emits, and the turns its block lists, are either the complete verbatim
\* window (the last min(window, length) turns of the log, each with its whole
\* content) or none at all.
C25_WindowWholeOrEmpty ==
  last.valid =>
    LET window == LastTurns(last.chat_history, config.last_verbatim_turns)
        listed == VerbatimSection(last.result.context)
    IN /\ listed \in {window, << >>}
       /\ last.result.verbatim_turns = listed
       /\ history_context_string = last.result.context
       /\ listed = << >> =>
            \/ window = << >>
            \/ Counted(VerbatimTurnsText(window), last.answers.fail2)
                 > history_token_budget

\* C25 witness: a window of several turns over the budget, emitted as no
\* turn at all, with older turns behind it
C25_Witness ==
  /\ last.valid
  /\ Len(LastTurns(last.chat_history, config.last_verbatim_turns)) >= 2
  /\ Len(last.chat_history) > config.last_verbatim_turns
  /\ Counted(VerbatimTurnsText(LastTurns(last.chat_history, config.last_verbatim_turns)),
             last.answers.fail2) > history_token_budget
  /\ VerbatimSection(history_context_string) = << >>

\* the turns a step of run_tutor appends to the log
Appended == SubSeq(chat_history', Len(chat_history) + 1, Len(chat_history'))

\* a step of run_tutor, seen from the turns it appends
ExchangeAppendsUserThenAssistant ==
  /\ (pc = "input" /\ pc' = "manage") =>
       /\ IsPrefix(chat_history, chat_history')
       /\ \/ /\ request'.valid /\ request'.kind = "hint"
             /\ \E reply \in ReplyTexts :
                  Appended = << Turn("user", HintRequest), Turn("assistant", reply) >>
          \/ /\ request'.valid /\ request'.kind = "explanation"
             /\ \E raw \in RawConfusions, reply \in ReplyTexts :
                  Appended = << Turn("user", Strip(raw)), Turn("assistant", reply) >>
          \/ /\ ~request'.valid
             /\ chat_history' = chat_history
  /\ (pc = "input" /\ pc' = "menu") => chat_history' = chat_history
  /\ (pc = "input" /\ pc' = "manage_feedback") =>
       /\ IsPrefix(chat_history, chat_history')
       /\ \E raw \in RawAnswers : Appended = << Turn("user", Strip(raw)) >>
       /\ ~request'.valid
  /\ (pc = "manage_feedback" /\ pc' = "feedback") =>
       /\ chat_history' = chat_history
       /\ ~request'.valid
  /\ pc = "feedback" =>
       /\ IsPrefix(chat_history, chat_history')
       /\ \E reply \in ReplyTexts : Appended = << Turn("assistant", reply) >>
       /\ request'.valid /\ request'.kind = "feedback"
       /\ chat_history[Len(chat_history)].role = "user"
  /\ (pc \in {"manage", "manage_feedback"} /\ pc' \in {"input", "exit"}) =>
       chat_history' = chat_history
  /\ request'.valid => pc \in {"input", "feedback"}

\* C26: every completed exchange of run_tutor appends exactly one user turn
\* followed by one assistant turn to the turn log: a hint and a scaffolded
\* explanation in one step, an answered question as the answer before the
\* second history call and the feedback after the request; an empty input and
\* 'menu', which cause no model request, append nothing, and neither does a
\* history call.
C26_ExchangeAppendsTwoTurns == [][ExchangeAppendsUserThenAssistant]_vars

\* C26 witness: an answered question followed, at the next question, by a
\* scaffolded explanation: the log holds the two exchanges, each as a user
\* turn and an assistant turn
C26_Witness ==
  /\ request.valid /\ request.kind = "explanation"
  /\ Len(chat_history) = 4
  /\ request.chat_history = SubSeq(chat_history, 1, 2)
  /\ \E raw \in RawAnswers : chat_history[1] = Turn("user", Strip(raw))
  /\ chat_history[2].role = "assistant"
  /\ chat_history[3] = Turn("user", <<"stuck">>)
  /\ chat_history[4].role = "assistant"

\* C27: the empty text counting 0, a call whose first total is over the
\* budget takes exactly one of two paths: hard overflow, when the window
\* alone is counted over the budget, or re-summarization of the older turns
\* otherwise.  Without older turns an overflow is always a hard overflow, so
\* the branch that resets the summary to "" is never taken; and the summary
\* always counts more than the window leaves, so no overflow falls through
\* every branch.
C27_OverflowIsHardOrResummarized ==
  last.valid =>
    LET r == last.result
        older == TurnsBefore(last.chat_history, config.last_verbatim_turns)
        over == FirstTotal(last) > history_token_budget
    IN /\ r.branch \notin {"reset", "none"}
       /\ over <=> r.branch \in {"hard", "resum"}
       /\ over =>
            /\ AllowedForSummary(last)
                 < Counted(FirstSummaryOf(last), last.answers.fail1)
            /\ r.branch = "hard" <=> AllowedForSummary(last) < 0
            /\ r.branch = "resum" <=> Len(r.calls) = 2
            /\ older = << >> =>
                 /\ r.branch = "hard"
                 /\ r.summary = DiscardedMarker
       /\ older = << >> => r.summary \in {EmptyText, DiscardedMarker}
       /\ (older = << >> /\ r.summary = EmptyText) => ~over

\* C27 witness: an overflow without older turns: the window alone is counted
\* over the budget, the summary of step 2 is empty and counts 0, and the call
\* takes the hard-overflow path
C27_Witness ==
  /\ last.valid
  /\ last.chat_history # << >>
  /\ TurnsBefore(last.chat_history, config.last_verbatim_turns) = << >>
  /\ FirstSummaryOf(last) = EmptyText
  /\ FirstTotal(last) > history_token_budget
  /\ AllowedForSummary(last) < 0
  /\ last.result.branch = "hard"
  /\ last.result.summary = DiscardedMarker

\* what step 3 of a call counts for the rendered verbatim window
MeasuredWindow(call) ==
  Counted(VerbatimTurnsText(LastTurns(call.chat_history, config.last_verbatim_turns)),
          call.answers.fail2)

\* C28: a call discards the history (lists none of a non-empty window and
\* returns the discard marker for a summary) exactly when the rendered window
\* is counted strictly above the budget, whatever the summary counts; a
\* window counted exactly at the budget is kept, and a window counted within
\* the budget is listed whole however much the summary counts.
C28_DiscardedExactlyWhenWindowOverBudget ==
  last.valid =>
    LET r == last.result
        window == LastTurns(last.chat_history, config.last_verbatim_turns)
        listed == VerbatimSection(r.context)
        discarded == window # << >> /\ listed = << >>
    IN /\ discarded <=> MeasuredWindow(last) > history_token_budget
       /\ discarded => /\ r.summary = DiscardedMarker
                       /\ SummarySection(r.context) = DiscardedMarker
                       /\ Len(r.calls) <= 1
       /\ MeasuredWindow(last) <= history_token_budget =>
            /\ listed = window
            /\ r.verbatim_turns = window
            /\ r.branch # "hard"
       /\ history_context_string = r.context

\* C28 witness: a window counted exactly at the budget, behind it a summary
\* that keeps the total over the budget even after the second request: the
\* window is listed whole
C28_Witness ==
  /\ last.valid
  /\ MeasuredWindow(last) = history_token_budget
  /\ Len(last.result.calls) = 2
  /\ Counted(last.result.summary, last.answers.fail3) > 0
  /\ VerbatimSection(history_context_string)
       = LastTurns(last.chat_history, config.last_verbatim_turns)
  /\ VerbatimSection(history_context_string) # << >>

\* C29: the two results of a call agree: the summary section of the returned
\* Context Block, read back, is exactly the returned summary, and the block
\* has a summary section exactly when the returned summary is non-empty; this
\* holds when the first summary is kept, when the older turns were summarized
\* again and when the history was discarded, and the caller keeps the pair.
C29_BlockRendersReturnedSummary ==
  last.valid =>
    LET r == last.result
    IN /\ SummarySection(r.context) = r.summary
       /\ HasSummarySection(r.context) <=> r.summary # EmptyText
       /\ r.context = format_history_for_prompt(r.summary, VerbatimSection(r.context))
       /\ Len(r.calls) = 2 => SummarySection(r.context) = r.calls[2].result
       /\ MeasuredWindow(last) > history_token_budget =>
            SummarySection(r.context) = DiscardedMarker
       /\ history_context_string = r.context
       /\ current_summary = r.summary

\* C29 witness: the older turns were summarized twice with different answers,
\* and the block renders the second one, which is the summary returned
C29_Witness ==
  /\ last.valid
  /\ Len(last.result.calls) = 2
  /\ last.result.calls[1].result # last.result.calls[2].result
  /\ last.result.calls[2].result # EmptyText
  /\ current_summary = last.result.calls[2].result
  /\ SummarySection(history_context_string) = current_summary

\* C30: a failed token count fails open.  When the count of the rendered
\* verbatim window fails, the call does not discard the history: it lists the
\* whole window, whatever that window would have counted.  When the count of
\* the first summary fails too, the call returns the first summary and the
\* whole window and does not ask the summarizer again.
C30_FailedCountFailsOpen ==
  (last.valid /\ last.answers.fail2) =>
    LET r == last.result
        window == LastTurns(last.chat_history, config.last_verbatim_turns)
    IN /\ MeasuredWindow(last) = 0
       /\ r.branch # "hard"
       /\ VerbatimSection(r.context) = window
       /\ r.verbatim_turns = window
       /\ history_context_string = r.context
       /\ last.answers.fail1 =>
            /\ FirstTotal(last) = 0
            /\ Len(r.calls) <= 1
            /\ r.summary = FirstSummaryOf(last)
            /\ SummarySection(r.context) = FirstSummaryOf(last)
            /\ current_summary = FirstSummaryOf(last)

\* C30 witness: both counts failed for a window that truly is over the budget
\* and a non-empty first summary: the block carries that summary and the
\* whole window, after one summarizer request
C30_Witness ==
  /\ last.valid
  /\ last.answers.fail1 /\ last.answers.fail2
  /\ Len(VerbatimTurnsText(LastTurns(last.chat_history, config.last_verbatim_turns)))
       > history_token_budget
  /\ Len(last.result.calls) = 1
  /\ FirstSummaryOf(last) # EmptyText
  /\ SummarySection(history_context_string) = FirstSummaryOf(last)
  /\ VerbatimSection(history_context_string)
       = LastTurns(last.chat_history, config.last_verbatim_turns)

====
